---- MODULE Spec2Model ----
(***************************************************************************)
(* Model of the AI Arpeggiator backend (backend/app): the mood table and   *)
(* renderer of MusicTheoryEngine, the interval strategies of               *)
(* PatternGenerator, HybridMusicGenerator.generate_arpeggio, MidiProcessor *)
(* and the FastAPI handlers of main.py.                                    *)
(*                                                                         *)
(* Conventions.  Text (keys, prompts, generated text) is a sequence of     *)
(* character codes.  Times are counted in eighths of a second: every       *)
(* rhythm value of the mood table is a multiple of 0.125, so the floats    *)
(* the code adds are exact and 0.125 s is modelled as 1.  The two globals  *)
(* of main.py hold "None" or the name of their class; any other optional   *)
(* value is a sequence: <<>> for None (or for an absent field) and <<v>>   *)
(* for the value v.                                                        *)
(***************************************************************************)
EXTENDS Integers, Sequences, FiniteSets, TLC

VARIABLES
    phase,           \* startup_event: "boot" before it ran, then "up" or "failed"
    generator,       \* main.generator: "None" or "HybridMusicGenerator"
    midi_processor,  \* main.midi_processor: "None" or "MidiProcessor"
    lm_raises,       \* whether the loaded language model raises when sampled
    flat_ok,         \* whether the pitch library in use parses 'b' as a flat
    pyRng,           \* state of Python's global random module
    torchRng,        \* state of torch's global generator
    call,            \* the call just served: endpoint, request and what ran
    resp             \* its result, until the caller has taken it

vars == <<phase, generator, midi_processor, lm_raises, flat_ok, pyRng, torchRng, call, resp>>

None == "None"

Absent == <<>>

Some(v) == <<v>>

-----------------------------------------------------------------------------
(* Bounds of the model *)

\* The random sources have RngMod states.
RngMod == 4
\* Seeds offered to a request: None and the integers 0..MaxSeed.
MaxSeed == 1
\* num_bars offered to a valid request of the service: 1..MaxBarsIn.
MaxBarsIn == 1
\* num_bars offered to a direct call of the generator: 1..MaxBarsLib.
MaxBarsLib == 1
\* num_notes offered to a direct call of the pattern generator: 0..MaxNumNotes.
MaxNumNotes == 9

-----------------------------------------------------------------------------
(* Sequences *)

Range(s) == {s[i] : i \in 1..Len(s)}

\* Python s[:n] for n >= 0
Take(s, n) == SubSeq(s, 1, IF n < Len(s) THEN n ELSE Len(s))

\* Python s[n:] for n >= 0
Drop(s, n) == SubSeq(s, n + 1, Len(s))

Max2(a, b) == IF a > b THEN a ELSE b

Min2(a, b) == IF a < b THEN a ELSE b

\* `name = v`, then the statements F that read name
With(v, F(_)) == F(v)

RECURSIVE Loop(_, _, _, _)
\* st after `for i in range(lo, hi): st = Body(st, i)`.  The range is halved
\* and the first half is computed (as the one element of a set) before the
\* second is entered, to keep the evaluation shallow; the iterations run in
\* order.
Loop(Body(_, _), lo, hi, st) ==
    IF lo >= hi THEN st
    ELSE IF hi = lo + 1 THEN Body(st, lo)
    ELSE LET mid == (lo + hi) \div 2
         IN  CHOOSE r \in {Loop(Body, mid, hi, left) : left \in {Loop(Body, lo, mid, st)}} : TRUE

-----------------------------------------------------------------------------
(* The seedable random sources.  random.seed / torch.manual_seed put the   *)
(* source in a state that depends on the seed alone; every draw advances   *)
(* the state and returns a value that is a function of it.                 *)

RngStates == 0..(RngMod - 1)

SeedState(seed) == seed % RngMod

Advance(s) == (s + 1) % RngMod

\* a value in 0..n-1 drawn from state s (s has already been advanced);
\* the end values 0 and n-1 are both drawn
Below(s, n) == IF n <= 1 THEN 0 ELSE (s * (n - 1)) \div (RngMod - 1)

\* random.randint(a, b): both ends inclusive
randint(s, a, b) == a + Below(s, b - a + 1)

\* random.choice(seq)
choice(s, seq) == seq[1 + Below(s, Len(seq))]

-----------------------------------------------------------------------------
(* MusicTheoryEngine *)

Moods == {"happy", "calm", "energetic", "dark", "ambient", "chaotic", "epic", "melancholic"}

mood_configs ==
    [ happy |->
        [ scale_type |-> "major",
          chord_progression |-> <<"I", "IV", "V", "I">>,
          rhythm_patterns |-> << <<2, 2, 2, 2>>, <<4, 2, 2>> >>,
          velocity_range |-> <<80, 110>>,
          octave_range |-> <<0, 1>>,
          note_density |-> "high" ],
      calm |->
        [ scale_type |-> "major",
          chord_progression |-> <<"I", "vi", "IV", "V">>,
          rhythm_patterns |-> << <<4, 4>>, <<8>> >>,
          velocity_range |-> <<50, 80>>,
          octave_range |-> <<0, 0>>,
          note_density |-> "low" ],
      energetic |->
        [ scale_type |-> "major",
          chord_progression |-> <<"I", "V", "vi", "IV">>,
          rhythm_patterns |-> << <<1, 1, 1, 1, 1, 1, 1, 1>> >>,
          velocity_range |-> <<90, 127>>,
          octave_range |-> <<0, 2>>,
          note_density |-> "very_high" ],
      dark |->
        [ scale_type |-> "minor",
          chord_progression |-> <<"i", "iv", "v", "i">>,
          rhythm_patterns |-> << <<4, 4>>, <<6, 2>> >>,
          velocity_range |-> <<40, 70>>,
          octave_range |-> <<-1, 0>>,
          note_density |-> "medium" ],
      ambient |->
        [ scale_type |-> "major",
          chord_progression |-> <<"I", "IV", "I", "V">>,
          rhythm_patterns |-> << <<8>>, <<16>> >>,
          velocity_range |-> <<30, 60>>,
          octave_range |-> <<0, 1>>,
          note_density |-> "very_low" ],
      chaotic |->
        [ scale_type |-> "chromatic",
          chord_progression |-> <<"I", "bII", "V", "i">>,
          rhythm_patterns |-> << <<1, 2, 1, 4>>, <<2, 1, 1, 2, 2>> >>,
          velocity_range |-> <<60, 120>>,
          octave_range |-> <<-1, 2>>,
          note_density |-> "high" ],
      epic |->
        [ scale_type |-> "minor",
          chord_progression |-> <<"i", "VI", "III", "VII">>,
          rhythm_patterns |-> << <<4, 2, 2>>, <<2, 2, 4>> >>,
          velocity_range |-> <<80, 120>>,
          octave_range |-> <<0, 2>>,
          note_density |-> "high" ],
      melancholic |->
        [ scale_type |-> "minor",
          chord_progression |-> <<"i", "iv", "VI", "v">>,
          rhythm_patterns |-> << <<6, 2>>, <<4, 4>> >>,
          velocity_range |-> <<45, 75>>,
          octave_range |-> <<0, 1>>,
          note_density |-> "medium" ] ]

\* the lookup with another default: self.mood_configs.get(mood, self.mood_configs['calm'])
get_config_default_calm(mood) ==
    mood_configs[IF mood \in Moods THEN mood ELSE "calm"]

\* self.mood_configs.get(mood, self.mood_configs['happy'])
get_config(mood) ==
    mood_configs[IF mood \in Moods THEN mood ELSE "happy"]

density_map == [very_low |-> 2, low |-> 4, medium |-> 8, high |-> 16, very_high |-> 32]

_get_notes_per_bar(density) ==
    IF density \in DOMAIN density_map THEN density_map[density] ELSE 8

-----------------------------------------------------------------------------
(* get_scale_notes.  The pitch library is outside the repository: a key is *)
(* a step letter A..G and an optional accidental, '#' raising and a flat   *)
(* lowering the pitch by one semitone; the library's own flat sign is '-', *)
(* and whether it also reads 'b' as a flat depends on the library in use   *)
(* (flat_ok).  Anything else makes pitch.Pitch raise.  A pitch without an  *)
(* octave sounds in octave 4 (C = 60).                                     *)

step_class ==
    [c \in 65..71 |->
        CASE c = 67 -> 0 [] c = 68 -> 2 [] c = 69 -> 4 [] c = 70 -> 5
          [] c = 71 -> 7 [] c = 65 -> 9 [] c = 66 -> 11]

\* pitch.Pitch(key).midi, or Absent when the constructor raises
PitchMidi(key, flats) ==
    IF Len(key) \notin {1, 2} \/ key[1] \notin DOMAIN step_class THEN Absent
    ELSE IF Len(key) = 1 THEN Some(60 + step_class[key[1]])
    ELSE IF key[2] = 35 THEN Some(60 + step_class[key[1]] + 1)
    ELSE IF key[2] = 45 \/ (key[2] = 98 /\ flats) THEN Some(60 + step_class[key[1]] - 1)
    ELSE Absent

\* semitones above the tonic of scale.XScale(key_pitch).pitches, tonic to octave
ScaleSteps(scale_type) ==
    IF scale_type = "minor" THEN {0, 2, 3, 5, 7, 8, 10, 12}
    ELSE IF scale_type = "chromatic" THEN 0..12
    ELSE {0, 2, 4, 5, 7, 9, 11, 12}

FallbackScale == <<60, 62, 64, 65, 67, 69, 71, 72>>

PianoRange == [i \in 1..88 |-> 20 + i]

\* get_scale_notes returning sorted(pitches): the pitch an octave shares with
\* the next one is kept twice
get_scale_notes_no_set(key, scale_type, flats) ==
    LET tonic == PitchMidi(key, flats)
        Count(m) == Cardinality({p \in ScaleSteps(scale_type) \X (-1..2) :
                                    tonic[1] + p[1] + 12 * p[2] = m})
        Body(st, m) == st \o [k \in 1..Count(m) |-> m]
    IN  IF tonic = Absent THEN FallbackScale
        ELSE Loop(Body, 21, 109, <<>>)

\* get_scale_notes with an except branch that returns no pitches
get_scale_notes_no_fallback(key, scale_type, flats) ==
    LET tonic == PitchMidi(key, flats)
        pitches == {tonic[1] + st + 12 * octave : st \in ScaleSteps(scale_type), octave \in -1..2}
        Kept(m) == m \in pitches
    IN  IF tonic = Absent THEN <<>>
        ELSE SelectSeq(PianoRange, Kept)

\* sorted(list(set(pitches))) over the pitches kept by 21 <= midi <= 108
get_scale_notes(key, scale_type, flats) ==
    LET tonic == PitchMidi(key, flats)
        pitches == {tonic[1] + st + 12 * octave : st \in ScaleSteps(scale_type), octave \in -1..2}
        Kept(m) == m \in pitches
    IN  IF tonic = Absent THEN FallbackScale
        ELSE SelectSeq(PianoRange, Kept)

-----------------------------------------------------------------------------
(* create_pattern_from_style *)

\* the loop of the 'alternating' branch with the direction flipped on i % 8 == 0
AlternatingPattern_toggle_late(total_notes) ==
    LET Body(st, i) ==
            [ pattern |-> Append(st.pattern, IF st.ascending THEN i % 8 ELSE 7 - (i % 8)),
              ascending |-> IF i % 8 = 0 THEN ~st.ascending ELSE st.ascending ]
    IN  Loop(Body, 0, total_notes, [pattern |-> <<>>, ascending |-> TRUE]).pattern

\* the loop of the 'alternating' branch: the direction flips when (i + 1) % 8 == 0
AlternatingPattern(total_notes) ==
    LET Body(st, i) ==
            [ pattern |-> Append(st.pattern, IF st.ascending THEN i % 8 ELSE 7 - (i % 8)),
              ascending |-> IF (i + 1) % 8 = 0 THEN ~st.ascending ELSE st.ascending ]
    IN  Loop(Body, 0, total_notes, [pattern |-> <<>>, ascending |-> TRUE]).pattern

\* [random.randint(0, 7) for _ in range(n)]: the intervals and the state left
RandomIntervals(n, rng) ==
    LET Body(st, i) ==
            LET s == Advance(st.rng)
            IN  [intervals |-> Append(st.intervals, randint(s, 0, 7)), rng |-> s]
    IN  Loop(Body, 0, n, [intervals |-> <<>>, rng |-> rng])

\* the interval list and the state of the random module after the call
create_pattern_from_style(style, key, mood, num_bars, rng) ==
    With(_get_notes_per_bar(get_config(mood).note_density) * num_bars, LAMBDA total_notes :
        IF style = "ascending"
        THEN [intervals |-> [i \in 1..total_notes |-> (i - 1) % 8], rng |-> rng]
        ELSE IF style = "descending"
        THEN [intervals |-> [i \in 1..total_notes |-> 7 - ((i - 1) % 8)], rng |-> rng]
        ELSE IF style = "alternating"
        THEN [intervals |-> AlternatingPattern(total_notes), rng |-> rng]
        ELSE IF style = "random"
        THEN RandomIntervals(total_notes, rng)
        ELSE [intervals |-> [i \in 1..total_notes |-> (i - 1) % 8], rng |-> rng])

-----------------------------------------------------------------------------
(* create_arpeggio_from_intervals *)

\* a clamp to the MIDI range instead of the piano's: max(21, min(127, pitch))
ClampPitch_upper_only_127(pitch) == Max2(21, Min2(127, pitch))

\* max(21, min(108, pitch))
ClampPitch(pitch) == Max2(21, Min2(108, pitch))

\* the loop without `current_time += duration`
advance_time_dropped(current_time, duration) == current_time

\* current_time += duration
advance_time(current_time, duration) == current_time + duration

\* the number of passes of `for i in range(len(intervals))`
note_range_per_interval(total_notes, intervals) == Len(intervals)

\* the number of passes of `for i in range(total_notes)`
note_range(total_notes, intervals) == total_notes

\* one pass of the note loop: st holds notes, current_time and the state of
\* the random module
RenderNote(st, i, intervals, scale_notes, config, rhythm_pattern) ==
    LET interval == intervals[(i % Len(intervals)) + 1]
        scale_index == interval % Len(scale_notes)
        base_pitch == scale_notes[scale_index + 1]
        s1 == Advance(st.rng)
        octave_offset == randint(s1, config.octave_range[1], config.octave_range[2]) * 12
        pitch == ClampPitch(base_pitch + octave_offset)
        duration == rhythm_pattern[(i % Len(rhythm_pattern)) + 1]
        s2 == Advance(s1)
        velocity == randint(s2, config.velocity_range[1], config.velocity_range[2])
    IN  [ notes |-> Append(st.notes, [ pitch |-> pitch, start |-> st.current_time,
                                       end |-> st.current_time + duration,
                                       velocity |-> velocity ]),
          current_time |-> advance_time(st.current_time, duration),
          rng |-> s2 ]

\* [raised, notes, rng]: the index and modulo operations of the loop raise
\* on an empty interval list and on an empty scale
create_arpeggio_from_intervals(key, mood, intervals, num_bars, bpm, flats, rng) ==
    With(get_config(mood), LAMBDA config :
    With(get_scale_notes(key, config.scale_type, flats), LAMBDA scale_notes :
    With(_get_notes_per_bar(config.note_density) * num_bars, LAMBDA total_notes :
    With(Advance(rng), LAMBDA s0 :
    With(choice(s0, config.rhythm_patterns), LAMBDA rhythm_pattern :
        IF total_notes > 0 /\ (Len(intervals) = 0 \/ Len(scale_notes) = 0)
        THEN [raised |-> TRUE, notes |-> <<>>, rng |-> s0]
        ELSE LET Body(st, i) == RenderNote(st, i, intervals, scale_notes, config, rhythm_pattern)
             IN  With(Loop(Body, 0, note_range(total_notes, intervals),
                           [notes |-> <<>>, current_time |-> 0, rng |-> s0]),
                      LAMBDA r : [raised |-> FALSE, notes |-> r.notes, rng |-> r.rng]))))))

\* _analyze_pattern_movement
_analyze_pattern_movement(intervals) ==
    IF Len(intervals) < 2 THEN "static"
    ELSE LET ascending == Cardinality({i \in 1..(Len(intervals) - 1) : intervals[i + 1] > intervals[i]})
             descending == Cardinality({i \in 1..(Len(intervals) - 1) : intervals[i + 1] < intervals[i]})
         IN  IF 2 * ascending > 3 * descending THEN "ascending"
             ELSE IF 2 * descending > 3 * ascending THEN "descending"
             ELSE "alternating"

\* f"{mood.capitalize()} {config['scale_type']} arpeggio with {movement} movement"
get_mood_description(mood, intervals) ==
    LET config == get_config(mood)
    IN  <<mood, config.scale_type, "arpeggio with", _analyze_pattern_movement(intervals), "movement">>

-----------------------------------------------------------------------------
(* PatternGenerator *)

mood_descriptions ==
    [ happy |-> <<117, 112, 108, 105, 102, 116, 105, 110, 103, 44, 32, 98, 114, 105, 103, 104, 116, 44, 32, 97, 110, 100, 32, 106, 111, 121, 102, 117, 108>>,
      calm |-> <<112, 101, 97, 99, 101, 102, 117, 108, 44, 32, 115, 101, 114, 101, 110, 101, 44, 32, 97, 110, 100, 32, 103, 101, 110, 116, 108, 101>>,
      energetic |-> <<100, 121, 110, 97, 109, 105, 99, 44, 32, 112, 111, 119, 101, 114, 102, 117, 108, 44, 32, 97, 110, 100, 32, 101, 120, 99, 105, 116, 105, 110, 103>>,
      dark |-> <<109, 121, 115, 116, 101, 114, 105, 111, 117, 115, 44, 32, 115, 111, 109, 98, 101, 114, 44, 32, 97, 110, 100, 32, 105, 110, 116, 101, 110, 115, 101>>,
      ambient |-> <<97, 116, 109, 111, 115, 112, 104, 101, 114, 105, 99, 44, 32, 115, 112, 97, 99, 105, 111, 117, 115, 44, 32, 97, 110, 100, 32, 101, 116, 104, 101, 114, 101, 97, 108>>,
      chaotic |-> <<117, 110, 112, 114, 101, 100, 105, 99, 116, 97, 98, 108, 101, 44, 32, 119, 105, 108, 100, 44, 32, 97, 110, 100, 32, 105, 110, 116, 101, 110, 115, 101>>,
      epic |-> <<103, 114, 97, 110, 100, 44, 32, 104, 101, 114, 111, 105, 99, 44, 32, 97, 110, 100, 32, 100, 114, 97, 109, 97, 116, 105, 99>>,
      melancholic |-> <<115, 97, 100, 44, 32, 114, 101, 102, 108, 101, 99, 116, 105, 118, 101, 44, 32, 97, 110, 100, 32, 101, 109, 111, 116, 105, 111, 110, 97, 108>> ]

\* "Music composition in {key} with {description} character.\nArpeggio pattern: "
_create_prompt(key, mood, num_notes) ==
    LET description == IF mood \in DOMAIN mood_descriptions THEN mood_descriptions[mood]
                       ELSE <<109, 117, 115, 105, 99, 97, 108>>
    IN  <<77, 117, 115, 105, 99, 32, 99, 111, 109, 112, 111, 115, 105, 116, 105, 111, 110, 32, 105, 110, 32>>
        \o key \o <<32, 119, 105, 116, 104, 32>> \o description
        \o <<32, 99, 104, 97, 114, 97, 99, 116, 101, 114, 46, 10, 65, 114, 112, 101, 103, 103, 105, 111, 32, 112, 97, 116, 116, 101, 114, 110, 58, 32>>

\* What the language model may add to the prompt: "1, 3, 5, 12, 8", nothing,
\* a run of line feeds as long as a prompt, "C E G, 7", and the line feeds
\* followed by "abc".
Continuations ==
    << <<49, 44, 32, 51, 44, 32, 53, 44, 32, 49, 50, 44, 32, 56>>,
       <<>>,
       [i \in 1..100 |-> 10],
       <<67, 32, 69, 32, 71, 44, 32, 55>>,
       [i \in 1..100 |-> 10] \o <<97, 98, 99>> >>

\* the continuation sampled for a prompt from state s of torch's generator:
\* it depends on both
Sampled(prompt, s) == Continuations[((s + Len(prompt)) % Len(Continuations)) + 1]

\* _generate_text: tokenizer.decode(outputs[0]) is the prompt followed by the
\* sampled continuation; sampling draws from torch's generator
_generate_text(prompt, temperature, rng) ==
    LET s == Advance(rng)
    IN  [text |-> prompt \o Sampled(prompt, s), rng |-> s]

isdigit(c) == c \in 48..57

isalpha(c) == c \in 65..90 \/ c \in 97..122

lower(c) == IF c \in 65..90 THEN c + 32 ELSE c

\* re.findall(r'\d+', text) as integers: the maximal runs of digits, in order
DigitRuns(text) ==
    LET Body(st, i) ==
            LET c == text[i + 1]
            IN  IF isdigit(c)
                THEN [ matches |-> st.matches, inrun |-> TRUE,
                       cur |-> (IF st.inrun THEN 10 * st.cur ELSE 0) + (c - 48) ]
                ELSE [ matches |-> IF st.inrun THEN Append(st.matches, st.cur) ELSE st.matches,
                       inrun |-> FALSE, cur |-> 0 ]
    IN  With(Loop(Body, 0, Len(text), [matches |-> <<>>, inrun |-> FALSE, cur |-> 0]), LAMBDA end :
            IF end.inrun THEN Append(end.matches, end.cur) ELSE end.matches)

\* the padding done once (`if` for `while`)
PadCyclic_once(intervals, num_notes) ==
    IF Len(intervals) >= num_notes THEN intervals
    ELSE intervals \o Take(intervals, num_notes - Len(intervals))

RECURSIVE PadCyclic(_, _)
\* while len(intervals) < num_notes: intervals.extend(intervals[:num_notes - len(intervals)])
PadCyclic(intervals, num_notes) ==
    IF Len(intervals) >= num_notes THEN intervals
    ELSE PadCyclic(intervals \o Take(intervals, num_notes - Len(intervals)), num_notes)

\* the character loop over text; after its break nothing is appended
CharScan(text, num_notes) ==
    LET Body(st, i) ==
            LET c == text[i + 1]
                now == IF isdigit(c) THEN Append(st.intervals, (c - 48) % 8)
                       ELSE IF isalpha(c) THEN Append(st.intervals, lower(c) % 8)
                       ELSE st.intervals
            IN  IF st.broke THEN st
                ELSE [intervals |-> now, broke |-> Len(now) >= num_notes]
    IN  Loop(Body, 0, Len(text), [intervals |-> <<>>, broke |-> FALSE]).intervals

_extract_intervals(text, num_notes) ==
    With(DigitRuns(text), LAMBDA matches :
        IF Len(matches) > 0
        THEN With(Take(matches, num_notes), LAMBDA first :
                 Take(PadCyclic([i \in 1..Len(first) |-> first[i] % 8], num_notes), num_notes))
        ELSE Take(CharScan(Drop(text, Len(text) \div 2), num_notes), num_notes))

fallback_patterns ==
    [ happy |-> <<0, 2, 4, 7, 4, 2>>,
      calm |-> <<0, 2, 4, 2, 0>>,
      energetic |-> <<0, 4, 7, 12, 7, 4, 0, -5>>,
      dark |-> <<0, 3, 5, 7, 5, 3>>,
      ambient |-> <<0, 4, 7, 11, 7, 4>>,
      chaotic |-> <<0, 6, 2, 7, 1, 5, 3, 4>>,
      epic |-> <<0, 3, 7, 10, 7, 3>>,
      melancholic |-> <<0, 3, 5, 8, 5, 3>> ]

RECURSIVE ExtendUntil(_, _, _)
\* while len(intervals) < num_notes: intervals.extend(base_pattern)
ExtendUntil(intervals, base_pattern, num_notes) ==
    IF Len(intervals) >= num_notes THEN intervals
    ELSE ExtendUntil(intervals \o base_pattern, base_pattern, num_notes)

\* _fallback_pattern with patterns.get(mood, []): nothing for a mood without
\* an entry
_fallback_pattern_no_default(mood, num_notes) ==
    IF mood \in DOMAIN fallback_patterns
    THEN Take(ExtendUntil(<<>>, fallback_patterns[mood], num_notes), num_notes)
    ELSE <<>>

\* _fallback_pattern returning the extended list without [:num_notes]
_fallback_pattern_untruncated(mood, num_notes) ==
    LET base_pattern == IF mood \in DOMAIN fallback_patterns THEN fallback_patterns[mood]
                        ELSE <<0, 2, 4, 5, 7>>
    IN  ExtendUntil(<<>>, base_pattern, num_notes)

_fallback_pattern(mood, num_notes) ==
    LET base_pattern == IF mood \in DOMAIN fallback_patterns THEN fallback_patterns[mood]
                        ELSE <<0, 2, 4, 5, 7>>
    IN  Take(ExtendUntil(<<>>, base_pattern, num_notes), num_notes)

\* generate_interval_pattern testing only `if not intervals`
generate_interval_pattern_any_extraction(key, mood, num_notes, temperature, raises, rng) ==
    IF raises
    THEN [intervals |-> _fallback_pattern(mood, num_notes), rng |-> rng, path |-> "except"]
    ELSE With(_generate_text(_create_prompt(key, mood, num_notes), temperature, rng), LAMBDA g :
         With(_extract_intervals(g.text, num_notes), LAMBDA intervals :
             IF Len(intervals) = 0
             THEN [intervals |-> _fallback_pattern(mood, num_notes), rng |-> g.rng,
                   path |-> "fallback"]
             ELSE [intervals |-> intervals, rng |-> g.rng, path |-> "extracted"]))

\* [intervals, rng, path]: path records which branch produced the intervals:
\* "except" (the except clause), "fallback" (extraction failed) or "extracted"
generate_interval_pattern(key, mood, num_notes, temperature, raises, rng) ==
    IF raises
    THEN [intervals |-> _fallback_pattern(mood, num_notes), rng |-> rng, path |-> "except"]
    ELSE With(_generate_text(_create_prompt(key, mood, num_notes), temperature, rng), LAMBDA g :
         With(_extract_intervals(g.text, num_notes), LAMBDA intervals :
             IF Len(intervals) = 0 \/ Len(intervals) < num_notes \div 2
             THEN [intervals |-> _fallback_pattern(mood, num_notes), rng |-> g.rng,
                   path |-> "fallback"]
             ELSE [intervals |-> intervals, rng |-> g.rng, path |-> "extracted"]))

-----------------------------------------------------------------------------
(* MidiProcessor.  The MIDI container and its byte form belong to the MIDI *)
(* library; the container keeps the tempo and the notes in the order given *)
(* and its bytes are a function of exactly that.                           *)

default_instrument == 0

\* notes_to_midi taking the times of the notes for beats and converting them
\* to seconds at the tempo
notes_to_midi_in_beats(notes, bpm) ==
    [ initial_tempo |-> bpm,
      instruments |-> << [ program |-> default_instrument,
                           notes |-> [i \in 1..Len(notes) |->
                                        [ velocity |-> notes[i].velocity, pitch |-> notes[i].pitch,
                                          start |-> (notes[i].start * 60) \div bpm,
                                          end |-> (notes[i].end * 60) \div bpm ]] ] >> ]

\* pretty_midi keeps the times of the notes in seconds, whatever the tempo
notes_to_midi(notes, bpm) ==
    [ initial_tempo |-> bpm,
      instruments |-> << [ program |-> default_instrument,
                           notes |-> [i \in 1..Len(notes) |->
                                        [ velocity |-> notes[i].velocity, pitch |-> notes[i].pitch,
                                          start |-> notes[i].start, end |-> notes[i].end ]] ] >> ]

midi_to_bytes(midi) == <<"MThd", midi.initial_tempo, midi.instruments>>

midi_to_base64(midi) == <<"base64", midi_to_bytes(midi)>>

\* midi.get_end_time(): the latest end of a note, 0 without notes
get_end_time(midi) ==
    LET ends == {midi.instruments[k].notes[i].end :
                    k \in {1}, i \in 1..Len(midi.instruments[1].notes)}
    IN  IF ends = {} THEN 0 ELSE CHOOSE e \in ends : \A f \in ends : f <= e

-----------------------------------------------------------------------------
(* HybridMusicGenerator.generate_arpeggio *)

\* the state of a random source after `if seed: seed it`
seeded_if_truthy(seed, rng) ==
    IF seed # Absent /\ seed[1] # 0 THEN SeedState(seed[1]) ELSE rng

\* the state of a random source after `if seed is not None: seed it`
seeded(seed, rng) == IF seed # Absent THEN SeedState(seed[1]) ELSE rng

\* _generate_ai_pattern
_generate_ai_pattern(key, mood, num_bars, raises, rng) ==
    With(_get_notes_per_bar(get_config(mood).note_density) * num_bars, LAMBDA num_notes :
        generate_interval_pattern(key, mood, num_notes, 8, raises, rng))

\* What an unexpected exception can interrupt: the steps of generate_arpeggio
\* and, in the handlers, the encoding and the note extraction.
Stages == {"intervals", "render", "midi", "describe", "encode", "extract"}

Raised(py, torch) ==
    [ raised |-> TRUE, midi |-> Absent, description |-> Absent, intervals |-> Absent,
      path |-> "raised", notes |-> Absent, pyRng |-> py, torchRng |-> torch ]

\* req is the argument record; py and torch are the states of the two random
\* sources before the call; fault is the stage at which an unexpected
\* exception is raised, or None.  The result carries the states after it.
generate_arpeggio(req, py, torch, raises, flats, fault) ==
    With(seeded(req.seed, py), LAMBDA py0 :
    With(seeded(req.seed, torch), LAMBDA torch0 :
    With(IF req.pattern_style = "ai-generated"
         THEN With(_generate_ai_pattern(req.key, req.mood, req.num_bars, raises, torch0), LAMBDA ai :
                  [intervals |-> ai.intervals, py |-> py0, torch |-> ai.rng, path |-> ai.path])
         ELSE With(create_pattern_from_style(req.pattern_style, req.key, req.mood,
                                             req.num_bars, py0), LAMBDA st :
                  [intervals |-> st.intervals, py |-> st.rng, torch |-> torch0, path |-> "style"]),
         LAMBDA step1 :
    With(create_arpeggio_from_intervals(req.key, req.mood, step1.intervals, req.num_bars,
                                        req.bpm, flats, step1.py), LAMBDA r :
        IF fault = "intervals" THEN Raised(py0, torch0)
        ELSE IF fault = "render" THEN Raised(step1.py, step1.torch)
        ELSE IF r.raised \/ fault \in {"midi", "describe"} THEN Raised(r.rng, step1.torch)
        ELSE [ raised |-> FALSE,
               midi |-> Some(notes_to_midi(r.notes, req.bpm)),
               description |-> Some(get_mood_description(req.mood, step1.intervals)),
               intervals |-> Some(step1.intervals),
               path |-> step1.path,
               notes |-> Some(r.notes),
               pyRng |-> r.rng, torchRng |-> step1.torch ]))))

-----------------------------------------------------------------------------
(* ArpeggiatorRequest: the constraints the request model declares, which   *)
(* the framework checks before it calls a handler.                         *)

Styles == {"ascending", "descending", "alternating", "random", "ai-generated"}

\* pattern="^[A-G](#|b)?$"
KeyMatches(key) ==
    /\ Len(key) \in {1, 2}
    /\ key[1] \in 65..71
    /\ Len(key) = 2 => key[2] \in {35, 98}

\* the same without the bounds on num_bars
ValidationErrors_lax_bars(req) ==
    {f \in {"key"} : ~KeyMatches(req.key)}
    \cup {f \in {"mood"} : req.mood \notin Moods}
    \cup {f \in {"bpm"} : ~(req.bpm >= 40 /\ req.bpm <= 240)}
    \cup {f \in {"pattern_style"} : req.pattern_style \notin Styles}

\* the fields of req that fail their declared constraint
ValidationErrors(req) ==
    {f \in {"key"} : ~KeyMatches(req.key)}
    \cup {f \in {"mood"} : req.mood \notin Moods}
    \cup {f \in {"bpm"} : ~(req.bpm >= 40 /\ req.bpm <= 240)}
    \cup {f \in {"num_bars"} : ~(req.num_bars >= 1 /\ req.num_bars <= 8)}
    \cup {f \in {"pattern_style"} : req.pattern_style \notin Styles}

-----------------------------------------------------------------------------
(* main.py: the handlers.  A handler returns the response, whether it      *)
(* called generator.generate_arpeggio, and that call's record.            *)

Response(status) ==
    [ status |-> status, notes |-> Absent, midi_base64 |-> Absent, content |-> Absent,
      filename |-> Absent, tempo |-> Absent, key |-> Absent, mood |-> Absent,
      duration |-> Absent, pattern_description |-> Absent, body |-> Absent,
      detail |-> Absent, errors |-> {} ]

\* what the framework answers when the request model rejects the body
validation_response(errors) == [Response(422) EXCEPT !.errors = errors]

\* the same raise placed inside the try block, where the except clause answers 500
not_ready_caught_by_except(detail) == [Response(500) EXCEPT !.detail = Some(detail)]

\* raise HTTPException(status_code=503, ...) ahead of the try block
not_ready(detail) == [Response(503) EXCEPT !.detail = Some(detail)]

\* an except clause that answers with the notes when they were already rendered
generation_failed_partial(g, detail) ==
    IF g.raised THEN [Response(500) EXCEPT !.detail = Some(detail)]
    ELSE [Response(200) EXCEPT !.notes = g.notes]

\* the except clause of a generate handler: g is what generate_arpeggio
\* had produced when the exception was raised
generation_failed(g, detail) == [Response(500) EXCEPT !.detail = Some(detail)]

\* NoteData(pitch, start_time, end_time, velocity) for every note of the MIDI
NoteDataOf(midi) ==
    LET ns == midi.instruments[1].notes
    IN  [i \in 1..Len(ns) |->
            [ pitch |-> ns[i].pitch, start_time |-> ns[i].start,
              end_time |-> ns[i].end, velocity |-> ns[i].velocity ]]

NotInvoked(py, torch) == [Raised(py, torch) EXCEPT !.raised = FALSE, !.path = "none"]

\* POST /api/generate
api_generate(gen, mp, req, py, torch, raises, flats, fault) ==
    IF gen = None
    THEN [ resp |-> not_ready("Service is still initializing. Please try again in a moment."),
           invoked |-> FALSE, g |-> NotInvoked(py, torch) ]
    ELSE With(generate_arpeggio(req, py, torch, raises, flats, fault), LAMBDA g :
             IF g.raised
             THEN [ resp |-> generation_failed(g, "Failed to generate arpeggio"),
                    invoked |-> TRUE, g |-> g ]
             ELSE IF mp = None \/ fault \in {"encode", "extract"}
             THEN [ resp |-> generation_failed(g, "Failed to generate arpeggio"),
                    invoked |-> TRUE, g |-> g ]
             ELSE [ resp |-> [ Response(200) EXCEPT
                                 !.notes = Some(NoteDataOf(g.midi[1])),
                                 !.midi_base64 = Some(midi_to_base64(g.midi[1])),
                                 !.tempo = Some(req.bpm),
                                 !.key = Some(req.key),
                                 !.mood = Some(req.mood),
                                 !.duration = Some(get_end_time(g.midi[1])),
                                 !.pattern_description = g.description ],
                    invoked |-> TRUE, g |-> g ])

\* POST /api/generate/midi
api_generate_midi(gen, mp, req, py, torch, raises, flats, fault) ==
    IF gen = None
    THEN [ resp |-> not_ready("Service initializing"),
           invoked |-> FALSE, g |-> NotInvoked(py, torch) ]
    ELSE With(generate_arpeggio(req, py, torch, raises, flats, fault), LAMBDA g :
             IF g.raised \/ mp = None \/ fault \in {"encode", "extract"}
             THEN [ resp |-> generation_failed(g, "error"), invoked |-> TRUE, g |-> g ]
             ELSE [ resp |-> [ Response(200) EXCEPT
                                 !.content = Some(midi_to_bytes(g.midi[1])),
                                 !.filename = Some(<<"arpeggio", req.key, req.mood, req.bpm, "bpm.mid">>) ],
                    invoked |-> TRUE, g |-> g ])

\* GET /health
health_check(gen) ==
    [Response(200) EXCEPT
        !.body = Some([ status |-> IF gen # None THEN "healthy" ELSE "initializing",
                        model_loaded |-> gen # None ])]

\* GET /
root(gen) ==
    [Response(200) EXCEPT
        !.body = Some([ status |-> IF gen # None THEN "ready" ELSE "initializing",
                        model_loaded |-> gen # None ])]

\* GET /api/moods
get_moods(gen) ==
    IF gen = None THEN not_ready("Service initializing")
    ELSE [Response(200) EXCEPT !.body = Some([moods |-> Moods, default |-> "happy"])]

\* GET /api/pattern-styles
get_pattern_styles == [Response(200) EXCEPT !.body = Some([styles |-> Styles, default |-> "ai-generated"])]

-----------------------------------------------------------------------------
(* The requests offered to the service *)

KeyC == <<67>>
KeyFSharp == <<70, 35>>
KeyBFlat == <<66, 98>>

\* the defaults of ArpeggiatorRequest
DefaultRequest ==
    [ key |-> KeyC, mood |-> "happy", bpm |-> 120, num_bars |-> 2,
      pattern_style |-> "ai-generated", seed |-> Absent ]

Seeds == {Absent} \cup {Some(n) : n \in 0..MaxSeed}

\* the service is exercised with three moods of different density, scale and
\* octave range; the generator itself is exercised with all of them below
ValidRequests ==
    [ key : {KeyC, KeyBFlat}, mood : {"happy", "calm", "energetic"}, bpm : {120},
      num_bars : 1..MaxBarsIn, pattern_style : Styles, seed : Seeds ]

\* the requests during which an unexpected exception may be raised
FaultProbes ==
    {r \in ValidRequests : r.key = KeyC /\ r.mood = "calm" /\ r.num_bars = 1 /\ r.seed = Some(1)}

FaultsFor(gen, req) ==
    IF gen # None /\ req \in FaultProbes THEN {Absent} \cup {Some(st) : st \in Stages}
    ELSE {Absent}

\* requests at the edges of the declared ranges
EdgeRequests ==
    {[DefaultRequest EXCEPT !.bpm = b] : b \in {40, 240}}
    \cup {[DefaultRequest EXCEPT !.num_bars = 8, !.mood = "calm", !.pattern_style = "alternating"]}
    \cup {[DefaultRequest EXCEPT !.key = KeyFSharp, !.mood = "dark", !.num_bars = 1]}

\* "H", "c", "C##", "", "Cx"; an unknown mood; bpm and num_bars just outside
\* their ranges; an unknown style; and everything wrong at once
InvalidRequests ==
    {[DefaultRequest EXCEPT !.key = k] : k \in {<<72>>, <<99>>, <<67, 35, 35>>, <<>>, <<67, 120>>}}
    \cup {[DefaultRequest EXCEPT !.mood = "angry"]}
    \cup {[DefaultRequest EXCEPT !.bpm = b] : b \in {39, 241}}
    \cup {[DefaultRequest EXCEPT !.num_bars = n] : n \in {0, 9}}
    \cup {[DefaultRequest EXCEPT !.pattern_style = "zigzag"]}
    \cup {[ key |-> <<72>>, mood |-> "angry", bpm |-> 0, num_bars |-> 0,
            pattern_style |-> "zigzag", seed |-> Some(0) ]}

Requests == ValidRequests \cup EdgeRequests \cup InvalidRequests

-----------------------------------------------------------------------------
(* The service *)

Init ==
    /\ phase = "boot"
    /\ generator = None
    /\ midi_processor = None
    /\ lm_raises \in BOOLEAN
    /\ flat_ok \in BOOLEAN
    /\ pyRng \in RngStates
    /\ torchRng \in RngStates
    /\ call = Absent
    /\ resp = Absent

\* startup_event, both services constructed
StartupOk ==
    /\ phase = "boot"
    /\ midi_processor' = "MidiProcessor"
    /\ generator' = "HybridMusicGenerator"
    /\ phase' = "up"
    /\ UNCHANGED <<lm_raises, flat_ok, pyRng, torchRng, call, resp>>

\* startup_event constructing the generator first, MidiProcessor() raising
StartupFail_generator_first ==
    /\ phase = "boot"
    /\ generator' = "HybridMusicGenerator"
    /\ midi_processor' = midi_processor
    /\ phase' = "failed"
    /\ UNCHANGED <<lm_raises, flat_ok, pyRng, torchRng, call, resp>>

\* startup_event, HybridMusicGenerator() raising (the model does not load)
StartupFail ==
    /\ phase = "boot"
    /\ midi_processor' = "MidiProcessor"
    /\ generator' = generator
    /\ phase' = "failed"
    /\ UNCHANGED <<lm_raises, flat_ok, pyRng, torchRng, call, resp>>

\* the record of a call: what was asked, when, and what ran (py and torch:
\* the states of the random sources when a direct call was made; scale_type
\* and text: the argument of a direct call that is no field of a request)
Call(endpoint, req) ==
    [ endpoint |-> endpoint, req |-> req, phase |-> phase, fault |-> Absent, invoked |-> FALSE,
      intervals |-> Absent, path |-> "none", notes |-> Absent, num_notes |-> Absent,
      py |-> Absent, torch |-> Absent, scale_type |-> Absent, text |-> Absent ]

\* the framework validates the body, then runs the handler to its end
Serve(endpoint, req, fault, h) ==
    /\ call' = Some([ Call(endpoint, req) EXCEPT
                        !.fault = fault, !.invoked = h.invoked, !.intervals = h.g.intervals,
                        !.path = h.g.path, !.notes = h.g.notes ])
    /\ resp' = Some(h.resp)
    /\ pyRng' = h.g.pyRng
    /\ torchRng' = h.g.torchRng
    /\ UNCHANGED <<phase, generator, midi_processor, lm_raises, flat_ok>>

Reject(endpoint, req) ==
    /\ call' = Some(Call(endpoint, req))
    /\ resp' = Some(validation_response(ValidationErrors(req)))
    /\ UNCHANGED <<phase, generator, midi_processor, lm_raises, flat_ok, pyRng, torchRng>>

PostGenerate ==
    /\ resp = Absent
    /\ \E req \in Requests :
          IF ValidationErrors(req) # {} THEN Reject("/api/generate", req)
          ELSE \E fault \in FaultsFor(generator, req) :
                  \E h \in {api_generate(generator, midi_processor, req, pyRng, torchRng,
                                     lm_raises, flat_ok, IF fault = Absent THEN "" ELSE fault[1])} :
                      Serve("/api/generate", req, fault, h)

PostGenerateMidi ==
    /\ resp = Absent
    /\ \E req \in Requests :
          IF ValidationErrors(req) # {} THEN Reject("/api/generate/midi", req)
          ELSE \E fault \in FaultsFor(generator, req) :
                  \E h \in {api_generate_midi(generator, midi_processor, req, pyRng, torchRng,
                                          lm_raises, flat_ok, IF fault = Absent THEN "" ELSE fault[1])} :
                      Serve("/api/generate/midi", req, fault, h)

Get(endpoint, r) ==
    /\ resp = Absent
    /\ call' = Some(Call(endpoint, DefaultRequest))
    /\ resp' = Some(r)
    /\ UNCHANGED <<phase, generator, midi_processor, lm_raises, flat_ok, pyRng, torchRng>>

GetHealth == Get("/health", health_check(generator))

GetRoot == Get("/", root(generator))

GetMoods == Get("/api/moods", get_moods(generator))

GetPatternStyles == Get("/api/pattern-styles", get_pattern_styles)

\* the caller takes the response
Deliver ==
    /\ resp # Absent
    /\ resp' = Absent
    /\ call' = Absent
    /\ UNCHANGED <<phase, generator, midi_processor, lm_raises, flat_ok, pyRng, torchRng>>

Next ==
    \/ StartupOk
    \/ StartupFail
    \/ PostGenerate
    \/ PostGenerateMidi
    \/ GetHealth
    \/ GetRoot
    \/ GetMoods
    \/ GetPatternStyles
    \/ Deliver

Spec == Init /\ [][Next]_vars

-----------------------------------------------------------------------------
(* The generator used as a library, as test_generator.py does: a process   *)
(* constructs HybridMusicGenerator and calls it; no request model stands   *)
(* in front, so any key, mood and style can arrive.                        *)

KeyH == <<72>>

\* every mood and style in C; other keys ("Bb", and "H", which is no key),
\* an unknown mood and an unknown style on fewer moods; long requests on the
\* sparse moods
LibRequests ==
    [ key : {KeyC}, mood : Moods, bpm : {120}, num_bars : 1..MaxBarsLib,
      pattern_style : Styles, seed : Seeds ]
    \cup [ key : {KeyBFlat, KeyH}, mood : {"happy", "dark", "chaotic", "angry"}, bpm : {120},
           num_bars : {1}, pattern_style : {"descending", "ai-generated", "zigzag"}, seed : Seeds ]
    \cup [ key : {KeyC}, mood : {"angry"}, bpm : {120}, num_bars : {1},
           pattern_style : Styles, seed : Seeds ]
    \cup [ key : {KeyC}, mood : {"calm", "ambient"}, bpm : {90}, num_bars : {3, 8},
           pattern_style : {"alternating", "ai-generated"}, seed : {Absent} ]

\* interval lists handed to the renderer directly
IntervalInputs == {<<0>>, <<7, 6, 5>>, <<-5, 12>>, <<100, -1, 8, 3>>, <<>>}

InitLib ==
    /\ phase = "lib"
    /\ generator = "HybridMusicGenerator"
    /\ midi_processor = None
    /\ lm_raises \in BOOLEAN
    /\ flat_ok \in BOOLEAN
    /\ pyRng \in RngStates
    /\ torchRng \in RngStates
    /\ call = Absent
    /\ resp = Absent

\* what a direct call hands back: the value returned, or that it raised
Returned(raised, value) ==
    [Response(0) EXCEPT !.body = IF raised THEN Absent ELSE value,
                        !.detail = IF raised THEN Some("raised") ELSE Absent]

\* generator.generate_arpeggio(**params)
LibGenerate ==
    /\ resp = Absent
    /\ \E req \in LibRequests :
          \E g \in {generate_arpeggio(req, pyRng, torchRng, lm_raises, flat_ok, "")} :
              /\ call' = Some([ Call("generate_arpeggio", req) EXCEPT
                                  !.invoked = TRUE, !.intervals = g.intervals,
                                  !.path = g.path, !.notes = g.notes,
                                  !.py = Some(pyRng), !.torch = Some(torchRng) ])
              /\ resp' = Some(Returned(g.raised, Some(<<g.midi, g.description>>)))
              /\ pyRng' = g.pyRng
              /\ torchRng' = g.torchRng
    /\ UNCHANGED <<phase, generator, midi_processor, lm_raises, flat_ok>>

\* generator.music_theory.create_arpeggio_from_intervals(key, mood, intervals, num_bars, bpm)
LibRender ==
    /\ resp = Absent
    /\ \E key \in {KeyC, KeyBFlat, KeyH}, mood \in {"happy", "energetic", "chaotic", "dark", "angry"},
          intervals \in IntervalInputs :
          \E req \in {[DefaultRequest EXCEPT !.key = key, !.mood = mood, !.num_bars = 1,
                                              !.pattern_style = "none"]},
             r \in {create_arpeggio_from_intervals(key, mood, intervals, 1, 120, flat_ok, pyRng)} :
              /\ call' = Some([ Call("create_arpeggio_from_intervals", req) EXCEPT
                                  !.invoked = TRUE, !.intervals = Some(intervals),
                                  !.path = IF r.raised THEN "raised" ELSE "given",
                                  !.notes = IF r.raised THEN Absent ELSE Some(r.notes),
                                  !.py = Some(pyRng), !.torch = Some(torchRng) ])
              /\ resp' = Some(Returned(r.raised, Some(r.notes)))
              /\ pyRng' = r.rng
    /\ UNCHANGED <<phase, generator, midi_processor, lm_raises, flat_ok, torchRng>>

\* generator.pattern_gen.generate_interval_pattern(key, mood, num_notes)
LibPattern ==
    /\ resp = Absent
    /\ \E mood \in Moods \cup {"angry"}, num_notes \in 0..MaxNumNotes :
          \E req \in {[DefaultRequest EXCEPT !.mood = mood]},
             r \in {generate_interval_pattern(KeyC, mood, num_notes, 8, lm_raises, torchRng)} :
              /\ call' = Some([ Call("generate_interval_pattern", req) EXCEPT
                                  !.invoked = TRUE, !.intervals = Some(r.intervals),
                                  !.path = r.path, !.num_notes = Some(num_notes),
                                  !.py = Some(pyRng), !.torch = Some(torchRng) ])
              /\ resp' = Some(Returned(FALSE, Some(r.intervals)))
              /\ torchRng' = r.rng
    /\ UNCHANGED <<phase, generator, midi_processor, lm_raises, flat_ok, pyRng>>

\* keys handed to get_scale_notes directly: the 21 the request model accepts,
\* and "H" and "C-"
ScaleKeys ==
    {<<l>> : l \in 65..71} \cup {<<l, a>> : l \in 65..71, a \in {35, 98}}
    \cup {<<72>>, <<67, 45>>}

\* generator.music_theory.get_scale_notes(key, scale_type)
LibScale ==
    /\ resp = Absent
    /\ \E key \in ScaleKeys, scale_type \in {"major", "minor", "chromatic", "lydian"} :
          /\ call' = Some([ Call("get_scale_notes", [DefaultRequest EXCEPT !.key = key]) EXCEPT
                              !.invoked = TRUE, !.scale_type = Some(scale_type) ])
          /\ resp' = Some(Returned(FALSE, Some(get_scale_notes(key, scale_type, flat_ok))))
    /\ UNCHANGED <<phase, generator, midi_processor, lm_raises, flat_ok, pyRng, torchRng>>

\* texts handed to _extract_intervals directly: the continuations, "007 42"
\* and "9"
ExtractTexts == Range(Continuations) \cup {<<48, 48, 55, 32, 52, 50>>, <<57>>}

\* generator.pattern_gen._extract_intervals(text, num_notes)
LibExtract ==
    /\ resp = Absent
    /\ \E text \in ExtractTexts, num_notes \in 0..MaxNumNotes :
       \E intervals \in {_extract_intervals(text, num_notes)} :
          /\ call' = Some([ Call("_extract_intervals", DefaultRequest) EXCEPT
                              !.invoked = TRUE, !.intervals = Some(intervals),
                              !.num_notes = Some(num_notes), !.text = Some(text) ])
          /\ resp' = Some(Returned(FALSE, Some(intervals)))
    /\ UNCHANGED <<phase, generator, midi_processor, lm_raises, flat_ok, pyRng, torchRng>>

NextLib ==
    \/ LibGenerate
    \/ LibRender
    \/ LibPattern
    \/ LibScale
    \/ LibExtract
    \/ Deliver

SpecLib == InitLib /\ [][NextLib]_vars

-----------------------------------------------------------------------------
(* Properties.  TheCall is the call just served and TheResp its result;    *)
(* both are read only while a result is waiting (call # Absent).           *)

TheCall == call[1]

TheResp == resp[1]

GenerateEndpoints == {"/api/generate", "/api/generate/midi"}

\* A request every field of which is valid, written out from the field
\* descriptions: the 21 key names, the 8 moods, the ranges and the 5 styles.
FieldsValid(req) ==
    /\ req.key \in {<<l>> : l \in 65..71} \cup {<<l, a>> : l \in 65..71, a \in {35, 98}}
    /\ req.mood \in {"happy", "calm", "energetic", "dark", "ambient", "chaotic", "epic", "melancholic"}
    /\ req.bpm \in 40..240
    /\ req.num_bars \in 1..8
    /\ req.pattern_style \in {"ascending", "descending", "alternating", "random", "ai-generated"}

\* very_low=2, low=4, medium=8, high=16, very_high=32
DensityNotes(density) ==
    CASE density = "very_low" -> 2
      [] density = "low" -> 4
      [] density = "medium" -> 8
      [] density = "high" -> 16
      [] density = "very_high" -> 32

ExpectedNotes(req) == DensityNotes(mood_configs[req.mood].note_density) * req.num_bars

\* the MIDI object a direct call of generate_arpeggio returned
ReturnedMidi == TheResp.body[1][1][1]

\* the description a direct call of generate_arpeggio returned
ReturnedDescription == TheResp.body[1][2][1]

\* C1: for every valid generation request the number of notes generate_arpeggio
\* produces (in the note list and in the MIDI object) is
\* notes_per_bar(density(mood)) * num_bars, and the renderer produces that many
\* notes for whatever non-empty interval list it is handed.
C1_NoteCount ==
    call # Absent =>
        /\ (TheCall.endpoint = "generate_arpeggio" /\ FieldsValid(TheCall.req)) =>
              /\ TheResp.detail = Absent
              /\ TheCall.notes # Absent
              /\ Len(TheCall.notes[1]) = ExpectedNotes(TheCall.req)
              /\ Len(ReturnedMidi.instruments[1].notes) = ExpectedNotes(TheCall.req)
        /\ (/\ TheCall.endpoint = "create_arpeggio_from_intervals"
            /\ TheCall.req.mood \in Moods
            /\ TheCall.intervals # Some(<<>>)) =>
              /\ TheCall.notes # Absent
              /\ Len(TheCall.notes[1]) = ExpectedNotes(TheCall.req)

\* an 8-bar request of the sparsest mood, generative style
C1_Witness ==
    /\ call # Absent
    /\ TheCall.endpoint = "generate_arpeggio"
    /\ TheCall.req.mood = "ambient"
    /\ TheCall.req.num_bars = 8
    /\ TheCall.req.pattern_style = "ai-generated"
    /\ TheCall.notes # Absent
    /\ Len(TheCall.notes[1]) = 16
    /\ Len(TheCall.intervals[1]) = 16

\* C2: in every arpeggio the renderer returns, the first note starts at 0, each
\* note ends where the next one starts, and every note ends after it starts.
C2_Contiguous ==
    (call # Absent /\ TheCall.notes # Absent) =>
        LET notes == TheCall.notes[1]
        IN  /\ notes # <<>> => notes[1].start = 0
            /\ \A i \in 1..(Len(notes) - 1) : notes[i].end = notes[i + 1].start
            /\ \A i \in 1..Len(notes) : notes[i].end > notes[i].start
            /\ \A i \in 1..(Len(notes) - 1) : notes[i].start < notes[i + 1].start

\* a render of chaotic's uneven rhythm <<1, 2, 1, 4>>: the fourth note starts at 4
C2_Witness ==
    /\ call # Absent
    /\ TheCall.endpoint = "create_arpeggio_from_intervals"
    /\ TheCall.req.mood = "chaotic"
    /\ TheCall.notes # Absent
    /\ Len(TheCall.notes[1]) = 16
    /\ TheCall.notes[1][4].start = 4
    /\ TheCall.notes[1][4].end = 8

\* C3: every rendered note has its pitch in 21..108 and its velocity within the
\* velocity_range of the mood's configuration, ends included, hence in 0..127.
C3_PitchVelocityRange ==
    (call # Absent /\ TheCall.notes # Absent) =>
        LET notes == TheCall.notes[1]
            range == get_config(TheCall.req.mood).velocity_range
        IN  \A i \in 1..Len(notes) :
                /\ notes[i].pitch \in 21..108
                /\ notes[i].velocity >= range[1]
                /\ notes[i].velocity <= range[2]
                /\ notes[i].velocity \in 0..127

\* energetic, interval -5 raised two octaves: a pitch held at 108, with the
\* velocity at the bottom of the range
C3_Witness ==
    /\ call # Absent
    /\ TheCall.req.mood = "energetic"
    /\ TheCall.notes # Absent
    /\ TheCall.intervals = Some(<<-5, 12>>)
    /\ \E i \in 1..Len(TheCall.notes[1]) :
          TheCall.notes[1][i].pitch = 108 /\ TheCall.notes[1][i].velocity = 90
    /\ \E i \in 1..Len(TheCall.notes[1]) : TheCall.notes[1][i].pitch < 108

\* C4: a generate request that carries a seed (0 included) produces the note
\* list, and hence the MIDI bytes, that generate_arpeggio produces for the same
\* parameters from any state of the random sources whatever, so whatever was
\* served before; and what either endpoint sends is that one MIDI object, so
\* both report the same notes and duration.
C4_SeedDeterminism ==
    (/\ call # Absent
     /\ TheCall.endpoint \in GenerateEndpoints
     /\ TheCall.invoked
     /\ TheCall.fault = Absent
     /\ TheCall.req.seed # Absent) =>
        \A p \in RngStates, t \in RngStates :
            LET g == generate_arpeggio(TheCall.req, p, t, lm_raises, flat_ok, "")
            IN  /\ ~g.raised
                /\ TheResp.status = 200
                /\ g.notes = TheCall.notes
                /\ TheCall.endpoint = "/api/generate" =>
                      /\ TheResp.midi_base64 = Some(<<"base64", midi_to_bytes(g.midi[1])>>)
                      /\ TheResp.notes = Some(NoteDataOf(g.midi[1]))
                      /\ TheResp.duration = Some(get_end_time(g.midi[1]))
                /\ TheCall.endpoint = "/api/generate/midi" =>
                      TheResp.content = Some(midi_to_bytes(g.midi[1]))

\* seed 0 on the download endpoint, with a style that draws every interval
C4_Witness ==
    /\ call # Absent
    /\ TheCall.endpoint = "/api/generate/midi"
    /\ TheCall.req.seed = Some(0)
    /\ TheCall.req.pattern_style = "random"
    /\ TheResp.status = 200
    /\ TheResp.content # Absent
    /\ pyRng # SeedState(0)

\* C5: when the language model raises or its text yields no usable intervals,
\* generate_interval_pattern returns exactly num_notes integers, each in 0..7,
\* and they are the mood's fallback pattern repeated and cut to num_notes.
C5_FallbackInScaleDegrees ==
    (/\ call # Absent
     /\ TheCall.endpoint = "generate_interval_pattern"
     /\ TheCall.req.mood \in Moods
     /\ TheCall.path \in {"except", "fallback"}) =>
        LET intervals == TheCall.intervals[1]
            num_notes == TheCall.num_notes[1]
        IN  /\ Len(intervals) = num_notes
            /\ \A i \in 1..Len(intervals) : intervals[i] \in 0..7
            /\ \A i \in 1..Len(intervals) :
                  intervals[i] = fallback_patterns[TheCall.req.mood]
                                    [((i - 1) % Len(fallback_patterns[TheCall.req.mood])) + 1]

\* C6: with a mood that is not configured, the style patterns, the generative
\* pattern, the renderer and the description all work from happy's
\* configuration and none raises: the intervals number happy's 16 per bar, the
\* notes are the ones the same call renders for 'happy', and the description
\* names happy's scale type.
C6_UnknownMoodIsHappy ==
    (call # Absent /\ TheCall.req.mood \notin Moods /\ TheCall.py # Absent) =>
        LET req == TheCall.req
            happy == [req EXCEPT !.mood = "happy"]
            py == TheCall.py[1]
            torch == TheCall.torch[1]
        IN  /\ TheCall.endpoint = "generate_arpeggio" =>
                  /\ TheResp.detail = Absent
                  /\ Len(TheCall.intervals[1]) = 16 * req.num_bars
                  /\ Len(TheCall.notes[1]) = 16 * req.num_bars
                  /\ req.pattern_style # "ai-generated" =>
                        LET h == generate_arpeggio(happy, py, torch, lm_raises, flat_ok, "")
                        IN  /\ TheCall.intervals = h.intervals
                            /\ TheCall.notes = h.notes
                            /\ ReturnedMidi = h.midi[1]
                  /\ req.pattern_style = "ai-generated" =>
                        TheCall.notes[1] =
                            create_arpeggio_from_intervals(req.key, "happy", TheCall.intervals[1],
                                req.num_bars, req.bpm, flat_ok, seeded(req.seed, py)).notes
                  /\ ReturnedDescription[1] = req.mood
                  /\ ReturnedDescription[2] = "major"
            /\ (TheCall.endpoint = "create_arpeggio_from_intervals" /\ TheCall.intervals # Some(<<>>)) =>
                  /\ TheCall.notes # Absent
                  /\ TheCall.notes[1] =
                        create_arpeggio_from_intervals(req.key, "happy", TheCall.intervals[1],
                            req.num_bars, req.bpm, flat_ok, py).notes
                  /\ \A i \in 1..Len(TheCall.notes[1]) : TheCall.notes[1][i].velocity \in 80..110

\* mood 'angry', generative style with the model raising: 16 intervals from the
\* default fallback pattern, rendered in happy's velocities
C6_Witness ==
    /\ call # Absent
    /\ TheCall.endpoint = "generate_arpeggio"
    /\ TheCall.req.mood = "angry"
    /\ TheCall.req.pattern_style = "ai-generated"
    /\ TheCall.path = "except"
    /\ Len(TheCall.notes[1]) = 16
    /\ TheCall.notes[1][1].velocity \in 80..110
    /\ ReturnedDescription[2] = "major"

\* C7: the generator is None exactly until startup has completed successfully;
\* a generate request handled while it is None gets 503 (not 500) and nothing
\* of the generation runs; one handled after a successful startup never gets
\* 503.  (A request is one the request model accepted: C8 covers the others.)
C7_NotReady ==
    /\ (generator = None) <=> (phase \in {"boot", "failed"})
    /\ (/\ call # Absent
        /\ TheCall.endpoint \in GenerateEndpoints
        /\ ValidationErrors(TheCall.req) = {}) =>
           /\ TheCall.phase \in {"boot", "failed"} =>
                 /\ TheResp.status = 503
                 /\ ~TheCall.invoked
                 /\ TheCall.intervals = Absent
                 /\ TheCall.notes = Absent
                 /\ TheResp.notes = Absent
                 /\ TheResp.midi_base64 = Absent
                 /\ TheResp.content = Absent
           /\ TheCall.phase = "up" => TheResp.status # 503

\* a download request answered 503 after the startup failed
C7_Witness ==
    /\ call # Absent
    /\ phase = "failed"
    /\ TheCall.phase = "failed"
    /\ TheCall.endpoint = "/api/generate/midi"
    /\ TheResp.status = 503
    /\ TheResp.detail = Some("Service initializing")

\* C8: a generate request is accepted exactly when every field is valid; one
\* with any field invalid is rejected whole, before the handler: nothing is
\* generated and the response carries no part of a result.
C8_AllOrNothing ==
    (call # Absent /\ TheCall.endpoint \in GenerateEndpoints) =>
        /\ (TheResp.status # 422) <=> FieldsValid(TheCall.req)
        /\ ~FieldsValid(TheCall.req) =>
              /\ TheResp.status = 422
              /\ TheResp.errors # {}
              /\ ~TheCall.invoked
              /\ TheCall.path = "none"
              /\ TheCall.intervals = Absent
              /\ TheCall.notes = Absent
              /\ TheResp.notes = Absent
              /\ TheResp.midi_base64 = Absent
              /\ TheResp.content = Absent
              /\ TheResp.pattern_description = Absent

\* a request whose only fault is num_bars = 9, sent to a service that is up
C8_Witness ==
    /\ call # Absent
    /\ TheCall.phase = "up"
    /\ TheCall.endpoint = "/api/generate"
    /\ TheCall.req = [DefaultRequest EXCEPT !.num_bars = 9]
    /\ TheResp.status = 422
    /\ TheResp.errors = {"num_bars"}

\* C9: a POST /api/generate request ends either in a 200 that carries the full
\* note list, the MIDI base64 and the description together, or in a 503 or 500
\* that carries none of them; an exception at any stage gives the 500.  (A
\* request is one the request model accepted: C8 covers the others.)
C9_CompleteOrError ==
    (/\ call # Absent
     /\ TheCall.endpoint = "/api/generate"
     /\ ValidationErrors(TheCall.req) = {}) =>
        /\ \/ /\ TheResp.status = 200
              /\ TheResp.notes # Absent
              /\ TheResp.midi_base64 # Absent
              /\ TheResp.pattern_description # Absent
              /\ Len(TheResp.notes[1]) = ExpectedNotes(TheCall.req)
              /\ \A i \in 1..Len(TheResp.notes[1]) :
                    /\ TheResp.notes[1][i].pitch = TheCall.notes[1][i].pitch
                    /\ TheResp.notes[1][i].start_time = TheCall.notes[1][i].start
                    /\ TheResp.notes[1][i].end_time = TheCall.notes[1][i].end
                    /\ TheResp.notes[1][i].velocity = TheCall.notes[1][i].velocity
           \/ /\ TheResp.status \in {500, 503}
              /\ TheResp.detail # Absent
              /\ TheResp.notes = Absent
              /\ TheResp.midi_base64 = Absent
              /\ TheResp.pattern_description = Absent
        /\ TheCall.fault # Absent => TheResp.status = 500

\* the note extraction failing after the arpeggio was generated and encoded
C9_Witness ==
    /\ call # Absent
    /\ TheCall.endpoint = "/api/generate"
    /\ TheCall.fault = Some("extract")
    /\ TheCall.invoked
    /\ TheCall.notes # Absent
    /\ TheResp.status = 500
    /\ TheResp.notes = Absent

\* element i (from 0) of the pattern of a style
StyleElement(style, i) ==
    CASE style = "ascending" -> i % 8
      [] style = "descending" -> 7 - (i % 8)
      [] style = "alternating" -> IF (i \div 8) % 2 = 0 THEN i % 8 ELSE 7 - (i % 8)

\* C10: for the styles ascending, descending and alternating the pattern has
\* notes_per_bar * num_bars elements, element i being i mod 8, 7 - (i mod 8),
\* and (alternating) i mod 8 in the even runs of 8 and 7 - (i mod 8) in the odd
\* ones; calm, descending, 1 bar gives 7, 6, 5, 4.
C10_StylePatterns ==
    /\ (/\ call # Absent
        /\ TheCall.endpoint = "generate_arpeggio"
        /\ TheCall.req.mood \in Moods
        /\ TheCall.req.pattern_style \in {"ascending", "descending", "alternating"}) =>
           LET intervals == TheCall.intervals[1]
               total_notes == ExpectedNotes(TheCall.req)
           IN  /\ Len(intervals) = total_notes
               /\ \A i \in 0..(total_notes - 1) :
                     intervals[i + 1] = StyleElement(TheCall.req.pattern_style, i)
    /\ create_pattern_from_style("descending", KeyC, "calm", 1, pyRng).intervals = <<7, 6, 5, 4>>

\* energetic, alternating, one bar: up, down, up and down again
C10_Witness ==
    /\ call # Absent
    /\ TheCall.endpoint = "generate_arpeggio"
    /\ TheCall.req.mood = "energetic"
    /\ TheCall.req.pattern_style = "alternating"
    /\ Len(TheCall.intervals[1]) = 32
    /\ TheCall.intervals[1][8] = 7
    /\ TheCall.intervals[1][9] = 7
    /\ TheCall.intervals[1][16] = 0
    /\ TheCall.intervals[1][17] = 0
    /\ TheCall.intervals[1][25] = 7

\* the 21 key names the request model accepts
AcceptedKeys == {<<l>> : l \in 65..71} \cup {<<l, a>> : l \in 65..71, a \in {35, 98}}

\* C11: for every key the request model accepts and every scale type (major,
\* minor, chromatic or any other string) get_scale_notes returns a list that
\* is not empty, strictly ascending (so free of duplicates) and within 21..108.
C11_ScaleWellFormed ==
    (/\ call # Absent
     /\ TheCall.endpoint = "get_scale_notes"
     /\ TheCall.req.key \in AcceptedKeys) =>
        /\ TheResp.detail = Absent
        /\ Len(TheResp.body[1]) >= 1
        /\ \A i \in 1..(Len(TheResp.body[1]) - 1) : TheResp.body[1][i] < TheResp.body[1][i + 1]
        /\ \A i \in 1..Len(TheResp.body[1]) : TheResp.body[1][i] \in 21..108

\* B# with a scale type that is none of the three: four octaves of the major
\* scale from 60 up to 108, the octave pitches once each
C11_Witness ==
    /\ call # Absent
    /\ TheCall.endpoint = "get_scale_notes"
    /\ TheCall.req.key = <<66, 35>>
    /\ TheCall.scale_type = Some("lydian")
    /\ Len(TheResp.body[1]) = 29
    /\ TheResp.body[1][1] = 60
    /\ TheResp.body[1][8] = 72
    /\ TheResp.body[1][29] = 108

\* the tempos a call is repeated with
OtherBpms == {40, 240}

\* the sum of the lengths of the notes
SumOfDurations(notes) ==
    LET Body(st, i) == st + (notes[i + 1].end - notes[i + 1].start)
    IN  Loop(Body, 0, Len(notes), 0)

\* C12: the notes do not depend on bpm: a seeded generate_arpeggio call
\* repeated with another bpm and nothing else changed gives notes with the
\* same pitch, start, end and velocity, in the note list and in the MIDI
\* object; bpm is only the tempo recorded in the MIDI object; each note lasts
\* what one rhythm pattern of the mood says for its position, and the duration
\* of the arpeggio is the sum of these lengths.
C12_BpmIndependent ==
    (/\ call # Absent
     /\ TheCall.endpoint = "generate_arpeggio"
     /\ TheCall.req.seed # Absent
     /\ TheResp.detail = Absent) =>
        /\ ReturnedMidi.initial_tempo = TheCall.req.bpm
        /\ \A bpm \in OtherBpms :
              \E g \in {generate_arpeggio([TheCall.req EXCEPT !.bpm = bpm], TheCall.py[1],
                                          TheCall.torch[1], lm_raises, flat_ok, "")} :
                 /\ ~g.raised
                 /\ g.notes = TheCall.notes
                 /\ g.midi[1].instruments = ReturnedMidi.instruments
                 /\ g.midi[1].initial_tempo = bpm
        /\ \E rhythm \in Range(get_config(TheCall.req.mood).rhythm_patterns) :
              \A i \in 1..Len(TheCall.notes[1]) :
                 TheCall.notes[1][i].end - TheCall.notes[1][i].start
                    = rhythm[((i - 1) % Len(rhythm)) + 1]
        /\ get_end_time(ReturnedMidi) = SumOfDurations(TheCall.notes[1])

\* a seeded call at 120 bpm whose notes are drawn at random and do not all
\* last the same
C12_Witness ==
    /\ call # Absent
    /\ TheCall.endpoint = "generate_arpeggio"
    /\ TheCall.req.seed = Some(1)
    /\ TheCall.req.bpm = 120
    /\ TheCall.req.pattern_style = "random"
    /\ TheResp.detail = Absent
    /\ ReturnedMidi.initial_tempo = 120
    /\ get_end_time(ReturnedMidi) > 0
    /\ \E i, j \in 1..Len(TheCall.notes[1]) :
          TheCall.notes[1][i].end - TheCall.notes[1][i].start
             # TheCall.notes[1][j].end - TheCall.notes[1][j].start

\* the text the language model returned in a direct call of generate_arpeggio
\* with style 'ai-generated'
TextOfCall ==
    _generate_text(_create_prompt(TheCall.req.key, TheCall.req.mood, 0), 8,
                   seeded(TheCall.req.seed, TheCall.torch[1])).text

\* C13 as stated: the interval list handed to the renderer has
\* notes_per_bar(density(mood)) * num_bars elements for every pattern style
\* and every text the language model returns.
C13_IntervalCount ==
    (/\ call # Absent
     /\ TheCall.endpoint = "generate_arpeggio"
     /\ FieldsValid(TheCall.req)
     /\ TheResp.detail = Absent) =>
        Len(TheCall.intervals[1]) = ExpectedNotes(TheCall.req)

\* C13, amended: the interval list handed to the renderer has
\* N = notes_per_bar(density(mood)) * num_bars elements for the four fixed
\* styles and, for 'ai-generated', when the text has a digit run or the
\* fallback list is used; when the text has no digit run and the character
\* heuristic finds fewer than N characters, but at least one and at least
\* N div 2, the list handed over is that shorter one.  The renderer still
\* produces N notes.
C13_IntervalCountOrShort ==
    (/\ call # Absent
     /\ TheCall.endpoint = "generate_arpeggio"
     /\ FieldsValid(TheCall.req)) =>
        /\ TheResp.detail = Absent
        /\ Len(TheCall.notes[1]) = ExpectedNotes(TheCall.req)
        /\ \/ Len(TheCall.intervals[1]) = ExpectedNotes(TheCall.req)
           \/ /\ TheCall.req.pattern_style = "ai-generated"
              /\ TheCall.path = "extracted"
              /\ Len(TheCall.intervals[1]) >= 1
              /\ Len(TheCall.intervals[1]) >= ExpectedNotes(TheCall.req) \div 2
              /\ Len(TheCall.intervals[1]) < ExpectedNotes(TheCall.req)
              /\ DigitRuns(TextOfCall) = <<>>

\* calm, one bar, 'ai-generated', the text ending in line feeds and "abc":
\* three intervals for four notes
C13_Witness ==
    /\ call # Absent
    /\ TheCall.endpoint = "generate_arpeggio"
    /\ TheCall.req.mood = "calm"
    /\ TheCall.req.num_bars = 1
    /\ TheCall.req.pattern_style = "ai-generated"
    /\ TheCall.path = "extracted"
    /\ TheCall.intervals = Some(<<1, 2, 3>>)
    /\ Len(TheCall.notes[1]) = 4

\* the digit runs of the texts handed to _extract_intervals, read off the
\* texts: "1, 3, 5, 12, 8", "C E G, 7", "007 42" and "9" have some
RunsOfText(text) ==
    CASE text = <<49, 44, 32, 51, 44, 32, 53, 44, 32, 49, 50, 44, 32, 56>> -> <<1, 3, 5, 12, 8>>
      [] text = <<67, 32, 69, 32, 71, 44, 32, 55>> -> <<7>>
      [] text = <<48, 48, 55, 32, 52, 50>> -> <<7, 42>>
      [] text = <<57>> -> <<9>>
      [] OTHER -> <<>>

\* C14: when the text has k >= 1 digit runs d_0..d_(k-1), _extract_intervals
\* returns exactly num_notes values, element i being d_(i mod m) mod 8 with
\* m = min(k, num_notes): the first num_notes runs modulo 8 in order, then
\* repeated cyclically.
C14_DigitRunsCyclic ==
    (/\ call # Absent
     /\ TheCall.endpoint = "_extract_intervals"
     /\ Len(RunsOfText(TheCall.text[1])) >= 1) =>
        LET d == RunsOfText(TheCall.text[1])
            num_notes == TheCall.num_notes[1]
            m == Min2(Len(d), num_notes)
        IN  /\ TheResp.detail = Absent
            /\ Len(TheResp.body[1]) = num_notes
            /\ \A i \in 0..(num_notes - 1) :
                  TheResp.body[1][i + 1] = d[(i % m) + 1] % 8

\* "007 42" for five notes: 7, 2 and then 7, 2, 7 again
C14_Witness ==
    /\ call # Absent
    /\ TheCall.endpoint = "_extract_intervals"
    /\ TheCall.text = Some(<<48, 48, 55, 32, 52, 50>>)
    /\ TheCall.num_notes = Some(5)
    /\ TheResp.body = Some(<<7, 2, 7, 2, 7>>)

\* the fallback list of a mood
BaseOf(mood) ==
    IF mood \in DOMAIN fallback_patterns THEN fallback_patterns[mood] ELSE <<0, 2, 4, 5, 7>>

\* what _extract_intervals made of the text in a direct call of
\* generate_interval_pattern
ExtractedOfCall ==
    _extract_intervals(_generate_text(_create_prompt(TheCall.req.key, TheCall.req.mood, 0), 8,
                                      TheCall.torch[1]).text,
                       TheCall.num_notes[1])

\* the rule of C15, given when an extracted list counts as too short
SelectionRule(TooShort(_, _)) ==
    (/\ call # Absent
     /\ TheCall.endpoint = "generate_interval_pattern") =>
        /\ TheResp.detail = Absent
        /\ TheResp.body = TheCall.intervals
        /\ \E extracted \in {IF lm_raises THEN <<>> ELSE ExtractedOfCall} :
              IF lm_raises \/ Len(extracted) = 0 \/ TooShort(Len(extracted), TheCall.num_notes[1])
              THEN /\ Len(TheCall.intervals[1]) = TheCall.num_notes[1]
                   /\ \A i \in 0..(TheCall.num_notes[1] - 1) :
                         TheCall.intervals[1][i + 1]
                            = BaseOf(TheCall.req.mood)[(i % Len(BaseOf(TheCall.req.mood))) + 1]
              ELSE TheCall.intervals[1] = extracted
        /\ torchRng = IF lm_raises THEN TheCall.torch[1] ELSE Advance(TheCall.torch[1])

C16_RequestIsolation ==
    (/\ call # Absent
     /\ TheCall.endpoint \in GenerateEndpoints
     /\ TheCall.invoked
     /\ TheCall.fault = Absent
     /\ TheResp.status = 200) =>
        \A served_before \in RngStates \X RngStates :
            generate_arpeggio(TheCall.req, served_before[1], served_before[2],
                              lm_raises, flat_ok, "").notes = TheCall.notes

\* C17: when the scale cannot be built (the key is no pitch name the pitch
\* library reads) get_scale_notes raises nothing and returns
\* 60, 62, 64, 65, 67, 69, 71, 72; a generate_arpeggio call for such a key
\* succeeds with all its notes, each a pitch of that list moved by whole
\* octaves.
C17_FallbackScale ==
    (/\ call # Absent
     /\ PitchMidi(TheCall.req.key, flat_ok) = Absent) =>
        /\ TheCall.endpoint = "get_scale_notes" =>
              /\ TheResp.detail = Absent
              /\ TheResp.body = Some(<<60, 62, 64, 65, 67, 69, 71, 72>>)
        /\ (TheCall.endpoint = "generate_arpeggio" /\ TheCall.req.mood \in Moods) =>
              /\ TheResp.detail = Absent
              /\ Len(TheCall.notes[1]) = ExpectedNotes(TheCall.req)
              /\ \A i \in 1..Len(TheCall.notes[1]) :
                    TheCall.notes[1][i].pitch % 12 \in {0, 2, 4, 5, 7, 9, 11}

\* the key "H", scale type minor: the eight pitches of the fallback scale
C17_Witness ==
    /\ call # Absent
    /\ TheCall.endpoint = "get_scale_notes"
    /\ TheCall.req.key = <<72>>
    /\ TheCall.scale_type = Some("minor")
    /\ TheResp.body = Some(FallbackScale)

\* the scale the renderer resolves in a direct call
ScaleOfCall ==
    get_scale_notes(TheCall.req.key, get_config(TheCall.req.mood).scale_type, flat_ok)

\* C18: the renderer fails on no index and no modulo by zero: for every
\* non-empty interval list (the ones the strategies return, shorter than the
\* number of notes, with values outside 0..7 or negative) and every scale
\* resolved, i mod len(intervals) is a position of the list and
\* interval mod len(scale) a position of the scale for every note i, and note
\* i sounds the scale pitch at that position moved by an octave of the mood's
\* range.
C18_IndexesDefined ==
    (/\ call # Absent
     /\ \/ TheCall.endpoint = "generate_arpeggio"
        \/ TheCall.endpoint = "create_arpeggio_from_intervals" /\ Len(TheCall.intervals[1]) >= 1) =>
        /\ TheResp.detail = Absent
        /\ TheCall.intervals # Absent
        /\ Len(TheCall.intervals[1]) >= 1
        /\ \E scale \in {ScaleOfCall}, config \in {get_config(TheCall.req.mood)} :
              /\ Len(scale) >= 1
              /\ Len(TheCall.notes[1]) = _get_notes_per_bar(config.note_density) * TheCall.req.num_bars
              /\ \A i \in 0..(Len(TheCall.notes[1]) - 1) :
                    \E k \in {i % Len(TheCall.intervals[1])} :
                    \E scale_index \in {TheCall.intervals[1][k + 1] % Len(scale)} :
                       /\ k \in 0..(Len(TheCall.intervals[1]) - 1)
                       /\ scale_index \in 0..(Len(scale) - 1)
                       /\ \E octave \in config.octave_range[1]..config.octave_range[2] :
                             TheCall.notes[1][i + 1].pitch
                                = Max2(21, Min2(108, scale[scale_index + 1] + 12 * octave))

\* the renderer handed -5 and 12 for the sixteen notes of a happy bar
C18_Witness ==
    /\ call # Absent
    /\ TheCall.endpoint = "create_arpeggio_from_intervals"
    /\ TheCall.req.mood = "happy"
    /\ TheCall.intervals = Some(<<-5, 12>>)
    /\ TheResp.detail = Absent
    /\ Len(TheCall.notes[1]) = 16

\* C19: in every state of the service, also after a startup in which the
\* generator could not be constructed, the generator being initialized implies
\* the MIDI processor being initialized (the generator is initialized exactly
\* when the startup went through); so a generate request that passed the
\* readiness check found a MIDI processor and fails only on an exception, and
\* /health reports model_loaded exactly when the generator was initialized at
\* the time of the call.
C19_GeneratorImpliesMidi ==
    /\ generator # None => midi_processor # None
    /\ generator # None <=> phase = "up"
    /\ call # Absent =>
          /\ (TheCall.endpoint \in GenerateEndpoints /\ TheCall.invoked) =>
                /\ TheCall.phase = "up"
                /\ midi_processor # None
                /\ TheCall.fault = Absent => TheResp.status = 200
          /\ TheCall.endpoint = "/health" =>
                /\ TheResp.status = 200
                /\ TheResp.body[1].model_loaded = (TheCall.phase = "up")

\* the service up and a generate request served with its MIDI encoded
C19_Witness ==
    /\ generator # None
    /\ midi_processor # None
    /\ call # Absent
    /\ TheCall.endpoint = "/api/generate"
    /\ TheCall.invoked
    /\ TheCall.phase = "up"
    /\ TheResp.status = 200
    /\ TheResp.midi_base64 # Absent

====
